---- MODULE Spec2Model ----
(***************************************************************************)
(* A model of the optimisation core of sherpa:                             *)
(*   - the parallel task dispatcher   (sherpa/utils/parallel.py)           *)
(*   - the bounded objective Opt      (sherpa/optmethods/opt.py)           *)
(*   - the simplex SimplexBase and its three initialisations               *)
(*                                    (sherpa/optmethods/opt.py)           *)
(*   - the method wrapper OptMethod   (sherpa/optmethods/__init__.py)      *)
(* The specifications SpecPar (with SpecParFair), SpecSplit, SpecOpt,      *)
(* SpecSimplex and SpecMeth share the module; each runs one part.          *)
(***************************************************************************)
EXTENDS Integers, Sequences, FiniteSets, TLC

VARIABLES
    \* ---- parallel dispatcher ----
    call,       \* which entry point is called
    sequence,   \* parallel_map: the input items
    funcs,      \* parallel_map_funcs: the function ids
    datasets,   \* parallel_map_funcs: the datasets
    noniter,    \* the arguments that are not iterable (np.iterable is false)
    bad,        \* the items on which the user function raises ValueError
    numcores,   \* the numcores argument (NoneVal for None)
    multi,      \* module global _multi
    ncpus,      \* module global _ncpus
    procs,      \* the multiprocessing.Process objects handed to run_tasks
    num,        \* run_tasks' num argument
    out_q,      \* manager.Queue of (index, values)
    err_q,      \* manager.Queue of exceptions
    pc,         \* where the orchestrating process is
    ji,         \* run_tasks: the index of the process being joined
    outcome,    \* "pending", "returned" or "raised"
    retval,     \* the list returned
    exc,        \* the type of the exception that propagates
    evals,      \* how many times the user function was applied to each input
    arrived,    \* history: the chunk indices in their order of arrival on out_q
    interrupted, \* history: a KeyboardInterrupt reached run_tasks
    \* ---- bounded objective (Opt) ----
    npar,       \* Opt.npar / SimplexBase.npar
    xmin,       \* Opt.xmin
    xmax,       \* Opt.xmax
    fsel,       \* which user callback is wrapped
    nfev,       \* FuncCounter.nfev, read through Opt.nfev
    ncalls,     \* history: the number of invocations of the user callback
    nevals,     \* history: the number of calls of Opt.func
    lastx,      \* the argument of the last call of Opt.func
    lastval,    \* the value the last call of Opt.func returned
    lastcalls,  \* the arguments the user callback got during that call
    \* ---- simplex (SimplexBase and its subclasses) ----
    strategy,   \* the subclass: SimplexNoStep, SimplexStep or SimplexRandom
    npop,       \* the number of rows
    xpar,       \* the starting point x0, as the caller passed it
    xarg,       \* the caller's x0 array once the constructor has returned
    rng,        \* the rng argument: NoneVal, or the state of the generator
    seed,       \* the seed argument
    gbefore,    \* the state of the process-global generator before the call
    gafter,     \* the state the process-global generator was last set to
    step,       \* the step vector
    factor,     \* the factor of the random draws
    built,      \* history: the vertices init built, before evaluation and sort
    simplex,    \* SimplexBase.simplex: npop rows of npar values and f
    lastop,     \* the last operation called on the simplex
    presorted,  \* history: the rows were already ascending when sort was called
    conv,       \* the value check_convergence returned
    cftol,      \* its ftol argument, <<p, q>> standing for p / q
    cmethod,    \* its method argument
    nops,       \* the number of shrink and move_vertex calls so far
    coef,       \* the coefficient of the last shrink or move_vertex call
    centroid,   \* the centroid argument of the last move_vertex call
    vertex,     \* the row the last move_vertex call returned
    \* ---- OptMethod ----
    optfunc,    \* per instance: the wrapped optimizer function, _optfunc
    config,     \* per instance: the config mapping, option name -> value
    idict,      \* per instance: the other entries of the instance __dict__
    mop,        \* the last operation on an OptMethod instance
    minst,      \* the instance it was called on
    mname,      \* the attribute or option name it was given
    mval,       \* the value it was given
    mres,       \* what it returned or raised
    output,     \* what the wrapped optimizer returned to the last operation
    optcalls,   \* the calls of the wrapped optimizer the last operation made
    log,        \* the warnings logged by the last operation
    margs,      \* the arguments of the last fit, or the state of the last
                \* __setstate__
    defaults,   \* per optimizer function: what default_config returns now
    \* ---- split_array called on its own ----
    sp_arr,     \* the arr argument
    sp_m,       \* the m argument (0: not called yet)
    sp_chunks   \* the list returned

parVars == <<call, sequence, funcs, datasets, noniter, bad, numcores, multi, ncpus,
             procs, num, out_q, err_q, pc, ji, outcome, retval, exc, evals,
             arrived, interrupted>>

optVars == <<npar, xmin, xmax, fsel, nfev, ncalls, nevals, lastx, lastval,
             lastcalls>>

simArgs == <<strategy, npop, xpar, xarg, step, factor, rng, seed, gbefore,
             gafter, built>>

simVars == <<simArgs, simplex, lastop, presorted, conv, cftol, cmethod, nops,
             coef, centroid, vertex>>

methVars == <<optfunc, config, idict, mop, minst, mname, mval, mres, output,
              optcalls, log, margs, defaults>>

splitVars == <<sp_arr, sp_m, sp_chunks>>

vars == <<parVars, optVars, simVars, methVars, splitVars>>

\* what the dispatcher's steps leave alone, and what Opt's steps leave alone
notPar == <<optVars, simVars, methVars, splitVars>>
notOpt == <<parVars, simVars, methVars, splitVars>>
notSim == <<parVars, methVars, splitVars>>
notMeth == <<parVars, optVars, simVars, splitVars>>
notSplit == <<parVars, optVars, simVars, methVars>>

\* ------------------------------------------------------------------ bounds
MaxN == 3        \* longest input sequence of parallel_map
MaxCores == 4    \* largest numcores argument
MaxFuncs == 2    \* longest funcs/datasets of parallel_map_funcs
MaxArr == 14     \* longest array handed to split_array on its own

MaxEvals == 3    \* most calls of Opt.func in a run of SpecOpt
MaxExtra == 1    \* most rows of a simplex beyond npar + 1
MaxOps == 1      \* most shrink, move_vertex and calc_centroid calls in a run

\* numcores=None (parallel.py line 162)
NoneVal == -1

ItemVals == {1, 2}
\* the values of the module global _ncpus
CpuCounts == {1, 2}

\* ------------------------------------------------- the parts not in use
\* Each specification runs one part of the model; the others stay idle.
ParIdle ==
    /\ call = "none" /\ sequence = <<>> /\ funcs = <<>> /\ datasets = <<>>
    /\ noniter = {} /\ bad = {} /\ numcores = NoneVal /\ multi = FALSE /\ ncpus = 1
    /\ procs = <<>> /\ num = 0 /\ out_q = <<>> /\ err_q = <<>>
    /\ pc = "done" /\ ji = 0 /\ outcome = "pending" /\ retval = <<>> /\ exc = "none"
    /\ evals = <<>> /\ arrived = <<>> /\ interrupted = FALSE

OptIdle ==
    /\ npar = 1 /\ xmin = <<0>> /\ xmax = <<0>> /\ fsel = 1
    /\ nfev = 0 /\ ncalls = 0 /\ nevals = 0
    /\ lastx = <<>> /\ lastval = 0 /\ lastcalls = <<>>

\* No OptMethod instance has been created.
MethIdle ==
    /\ optfunc = <<>> /\ config = <<>> /\ idict = <<>>
    /\ mop = "none" /\ minst = 0 /\ mname = "" /\ mval = 0
    /\ mres = [kind |-> "none"]
    /\ output = [kind |-> "none"] /\ optcalls = <<>> /\ log = <<>>
    /\ margs = [kind |-> "none"] /\ defaults = <<>>

SplitIdle == sp_arr = <<>> /\ sp_m = 0 /\ sp_chunks = <<>>

SimIdle ==
    /\ strategy = "none" /\ npop = 0 /\ xpar = <<>> /\ step = <<>>
    /\ factor = 0 /\ built = <<>> /\ simplex = <<>> /\ lastop = "none"
    /\ presorted = FALSE /\ conv = FALSE /\ cftol = <<0, 1>> /\ cmethod = 0
    /\ nops = 0
    /\ xarg = <<>> /\ rng = NoneVal /\ seed = 0 /\ gbefore = 0 /\ gafter = 0
    /\ coef = <<0, 1>> /\ centroid = <<>> /\ vertex = <<>>

\* ------------------------------------------------------- the user function
\* The user function with id fn applied to one item: it raises on the items
\* of bad and otherwise returns a value that tells the function and the item.
Raises(x) == x \in bad
\* A function id of 0 stands for an object that is not callable.
NotCallable == 0
\* A plausible slip: the test left out.
callable_unchecked(f) == TRUE

callable(f) == f # NotCallable
\* np.iterable(arg), for the argument called name
np_iterable(name) == name \notin noniter
Apply(fn, x) == 10 * x + fn

RECURSIVE SumSeq(_)
SumSeq(s) == IF s = <<>> THEN 0 ELSE Head(s) + SumSeq(Tail(s))

\* The user function applied to a whole dataset (the sequential path of
\* parallel_map_funcs hands it the dataset itself).
ApplyWhole(fn, ds) ==
    IF ds.iter THEN 100 + 10 * SumSeq(ds.items) + fn ELSE Apply(fn, ds.val)
RaisesWhole(ds) == (~ds.iter) /\ Raises(ds.val)

\* list(map(f, s)) in one process: the values, or the first exception.
RECURSIVE MapList(_, _)
MapList(fn, s) ==
    IF s = <<>> THEN <<>> ELSE <<Apply(fn, Head(s))>> \o MapList(fn, Tail(s))
AnyRaises(s) == \E i \in 1..Len(s) : Raises(s[i])

\* ------------------------------------------------------------- split_array
\* A plausible slip: halves rounded up, as round() did in Python 2.
RoundHalfUp(a, m) == (2 * a + m) \div (2 * m)

\* Python 3 round(a / m) of a non-negative quotient: half goes to even.
RoundHalfEven(a, m) ==
    LET q == a \div m
        r == a % m
    IN  IF 2 * r < m THEN q
        ELSE IF 2 * r > m THEN q + 1
        ELSE IF q % 2 = 0 THEN q ELSE q + 1

SplitIdx(n, m, i) == RoundHalfEven(i * n, m)

\* A plausible slip: the slice taken from idx[i] - 1, one item too early.
split_array_overlap(arr, m) ==
    [i \in 1..m |->
        SubSeq(arr, IF SplitIdx(Len(arr), m, i - 1) = 0 THEN 1
                    ELSE SplitIdx(Len(arr), m, i - 1),
               SplitIdx(Len(arr), m, i))]

split_array(arr, m) ==
    [i \in 1..m |->
        SubSeq(arr, SplitIdx(Len(arr), m, i - 1) + 1, SplitIdx(Len(arr), m, i))]

\* split_array called on its own: arr is range(1, N + 1), and m is any
\* number of chunks from 1 to N.
SplitInit ==
    /\ \E n \in 0..MaxArr : sp_arr = [i \in 1..n |-> i]
    /\ sp_m = 0 /\ sp_chunks = <<>>

Split ==
    /\ \E mm \in 1..Len(sp_arr) :
         /\ sp_m' = mm
         /\ sp_chunks' = split_array(sp_arr, mm)
    /\ UNCHANGED sp_arr
    /\ UNCHANGED notSplit

\* ------------------------------------------------------------------ procs
\* A multiprocessing.Process with target worker(f, ii, chunk, out_q, err_q).
\* st: "created" (not started: exitcode None, no _popen), "running"
\* (exitcode None), "done" (exitcode 0), "failed" (exitcode 1, an uncaught
\* exception), "terminated" (killed by terminate()).
\* off is the position of the chunk's first item in the input sequence.
NewProc(fn, ii, ds, off) ==
    [fn |-> fn, ii |-> ii, iter |-> ds.iter,
     chunk |-> IF ds.iter THEN ds.items ELSE <<>>,
     st |-> "created", vals |-> <<>>, off |-> off]

IterData(items) == [iter |-> TRUE, items |-> items, val |-> 0]
ScalarData(v) == [iter |-> FALSE, items |-> <<>>, val |-> v]

SeqsUpTo(S, n) == UNION {[1..k -> S] : k \in 0..n}

\* One dataset of parallel_map_funcs: a short list, or a value that is not
\* iterable.
DataChoices ==
    {IterData(s) : s \in SeqsUpTo(ItemVals, 1)}
    \cup {ScalarData(v) : v \in ItemVals}

\* -------------------------------------------------------------------- Init
\* The funcs argument: m functions, or m entries one of which is not
\* callable.
FuncChoices(m) ==
    {[i \in 1..m |-> i]}
    \cup {[i \in 1..m |-> IF i = k THEN NotCallable ELSE i] : k \in 1..m}

ParInit ==
    /\ call \in {"parallel_map", "parallel_map_funcs", "calc"}
    /\ bad \in SUBSET ItemVals
    /\ numcores \in {NoneVal} \cup (0..MaxCores)
    /\ multi \in BOOLEAN
    /\ ncpus \in CpuCounts
    /\ CASE call = "parallel_map" ->
            /\ funcs \in FuncChoices(1)
            /\ datasets = <<>>
            /\ \/ noniter = {} /\ sequence \in SeqsUpTo(ItemVals, MaxN)
               \/ noniter = {"sequence"} /\ sequence = <<>>
         [] call = "parallel_map_funcs" ->
            /\ sequence = <<>>
            /\ \E m \in 1..MaxFuncs, md \in 1..MaxFuncs :
                 \/ /\ noniter = {}
                    /\ funcs \in FuncChoices(m)
                    /\ datasets \in [1..md -> DataChoices]
                 \/ /\ noniter \in {{"funcs"}, {"datasets"}, {"funcs", "datasets"}}
                    /\ funcs = IF "funcs" \in noniter THEN <<>>
                               ELSE [i \in 1..m |-> i]
                    /\ datasets = IF "datasets" \in noniter THEN <<>>
                                  ELSE [i \in 1..md |-> IterData(<<>>)]
         [] call = "calc" ->
            \* MyNcores() itself raises when multi is False
            /\ multi
            /\ sequence = <<>> /\ datasets = <<>> /\ noniter = {}
            /\ \E m \in 1..MaxFuncs : funcs \in FuncChoices(m)
    /\ procs = <<>> /\ num = 0 /\ out_q = <<>> /\ err_q = <<>>
    /\ pc = "entry" /\ ji = 0 /\ outcome = "pending" /\ retval = <<>> /\ exc = "none"
    /\ evals = [i \in 1..Len(sequence) |-> 0]
    /\ arrived = <<>> /\ interrupted = FALSE

\* ------------------------------------------------------------ the outcomes
Return(v) ==
    /\ outcome' = "returned" /\ retval' = v /\ exc' = "none" /\ pc' = "done"

Raise(e) ==
    /\ outcome' = "raised" /\ retval' = <<>> /\ exc' = e /\ pc' = "done"

\* The index of the first item of s on which the function raises (0: none).
FirstRaise(s) ==
    IF AnyRaises(s) THEN CHOOSE i \in 1..Len(s) :
                            Raises(s[i]) /\ \A j \in 1..(i - 1) : ~Raises(s[j])
    ELSE 0

\* ------------------------------------------------------------ parallel_map
\* The whole of parallel_map up to the call of run_tasks: the sequential
\* path returns or raises at once, the other path builds the processes.
ParallelMap ==
    /\ pc = "entry" /\ call = "parallel_map"
    /\ LET size == Len(sequence) IN
       IF ~callable(funcs[1]) \/ ~np_iterable("sequence")
       THEN /\ Raise("TypeError")
            /\ UNCHANGED <<procs, num, evals>>
       ELSE IF (~multi) \/ size = 1 \/ (numcores # NoneVal /\ numcores < 2)
       THEN /\ IF AnyRaises(sequence)
               THEN /\ Raise("ValueError")
                    /\ evals' = [i \in 1..size |->
                                   IF i <= FirstRaise(sequence) THEN 1 ELSE 0]
               ELSE /\ Return(MapList(1, sequence))
                    /\ evals' = [i \in 1..size |-> 1]
            /\ UNCHANGED <<procs, num>>
       ELSE LET nc0 == IF numcores = NoneVal THEN ncpus ELSE numcores
                nc == IF size < nc0 THEN size ELSE nc0
            IN  IF nc = 0
                THEN \* split_array divides by float(0)
                     /\ Raise("ZeroDivisionError")
                     /\ UNCHANGED <<procs, num, evals>>
                ELSE /\ procs' = [k \in 1..nc |->
                           NewProc(1, k - 1,
                                   IterData(split_array(sequence, nc)[k]),
                                   SplitIdx(size, nc, k - 1))]
                     /\ num' = nc
                     /\ pc' = "start"
                     /\ UNCHANGED <<outcome, retval, exc, evals>>
    /\ UNCHANGED <<call, sequence, funcs, datasets, noniter, bad, numcores, multi,
                   ncpus, out_q, err_q, ji,
                   arrived, interrupted>>
    /\ UNCHANGED notPar

\* ------------------------------------------------------ parallel_map_funcs
ParallelMapFuncs ==
    /\ pc = "entry" /\ call = "parallel_map_funcs"
    /\ LET size == Len(datasets) IN
       IF \/ ~np_iterable("funcs") \/ ~np_iterable("datasets")
          \/ \E i \in 1..Len(funcs) : ~callable(funcs[i])
          \/ Len(funcs) # size
       THEN /\ Raise("TypeError")
            /\ UNCHANGED <<procs, num>>
       ELSE IF (~multi) \/ size = 1 \/ (numcores # NoneVal /\ numcores < 2)
       THEN /\ IF \E i \in 1..size : RaisesWhole(datasets[i])
               THEN Raise("ValueError")
               ELSE Return([i \in 1..size |-> ApplyWhole(funcs[1], datasets[i])])
            /\ UNCHANGED <<procs, num>>
       ELSE /\ procs' = [k \in 1..size |->
                           NewProc(funcs[k], k - 1, datasets[k], 0)]
            /\ num' = IF numcores = NoneVal THEN ncpus ELSE numcores
            /\ pc' = "start"
            /\ UNCHANGED <<outcome, retval, exc>>
    /\ UNCHANGED <<call, sequence, funcs, datasets, noniter, bad, numcores, multi,
                   ncpus, out_q, err_q, ji, evals,
                   arrived, interrupted>>
    /\ UNCHANGED notPar

\* ----------------------------------------------------------- MyNcores.calc
\* opt.py lines 55-72.  After the test of the entries it builds one process
\* per function and calls run_tasks(procs, err_q, out_q): run_tasks of
\* parallel.py takes a fourth argument, num, so that call raises TypeError
\* with the processes built and none started.
MyNcoresCalc ==
    /\ pc = "entry" /\ call = "calc"
    /\ IF \E i \in 1..Len(funcs) : ~callable(funcs[i])
       THEN /\ Raise("TypeError")
            /\ UNCHANGED procs
       ELSE /\ procs' = [k \in 1..Len(funcs) |->
                           NewProc(funcs[k], k - 1, ScalarData(0), 0)]
            /\ Raise("TypeError")
    /\ UNCHANGED <<call, sequence, funcs, datasets, noniter, bad, numcores,
                   multi, ncpus, num, out_q, err_q, ji, evals,
                   arrived, interrupted>>
    /\ UNCHANGED notPar

\* ------------------------------------------------------------------ worker
\* vals = map(f, chunk) is lazy: it raises only when chunk is not iterable,
\* and that exception is the one the worker puts on err_q.
WorkerMapRaises(w) ==
    /\ procs[w].st = "running" /\ ~procs[w].iter
    /\ err_q' = Append(err_q, "TypeError")
    /\ procs' = [procs EXCEPT ![w].st = "done"]
    /\ UNCHANGED <<call, sequence, funcs, datasets, noniter, bad, numcores, multi,
                   ncpus, num, out_q, pc, ji, outcome, retval, exc, evals,
                   arrived, interrupted>>
    /\ UNCHANGED notPar

\* list(vals) applies f to the next item of the chunk, outside the try: an
\* exception of f ends the process with nothing put on either queue.
WorkerEval(w) ==
    /\ procs[w].st = "running" /\ procs[w].iter
    /\ Len(procs[w].vals) < Len(procs[w].chunk)
    /\ LET pos == Len(procs[w].vals) + 1
           x == procs[w].chunk[pos]
       IN  /\ procs' = IF Raises(x)
                       THEN [procs EXCEPT ![w].st = "failed"]
                       ELSE [procs EXCEPT ![w].vals =
                                Append(@, Apply(procs[w].fn, x))]
           /\ evals' = IF call = "parallel_map"
                       THEN [evals EXCEPT ![procs[w].off + pos] = @ + 1]
                       ELSE evals
    /\ UNCHANGED <<call, sequence, funcs, datasets, noniter, bad, numcores, multi,
                   ncpus, num, out_q, err_q, pc, ji, outcome, retval, exc,
                   arrived, interrupted>>
    /\ UNCHANGED notPar

\* out_q.put((ii, list(vals)))
WorkerPut(w) ==
    /\ procs[w].st = "running" /\ procs[w].iter
    /\ Len(procs[w].vals) = Len(procs[w].chunk)
    /\ out_q' = Append(out_q, <<procs[w].ii, procs[w].vals>>)
    /\ arrived' = Append(arrived, procs[w].ii)
    /\ procs' = [procs EXCEPT ![w].st = "done"]
    /\ UNCHANGED <<call, sequence, funcs, datasets, noniter, bad, numcores, multi,
                   ncpus, num, err_q, pc, ji, outcome, retval, exc, evals,
                   interrupted>>
    /\ UNCHANGED notPar

\* --------------------------------------------------------------- run_tasks
\* proc.exitcode is None for a process that has not ended, started or not.
ExitcodeIsNone(p) == p.st \in {"created", "running"}

\* die(): terminate, in order, every process whose exitcode is None.
\* Process.terminate() of a process that was never started raises
\* AttributeError (it has no _popen), which ends die() there.
RECURSIVE DieFrom(_, _)
DieFrom(ps, i) ==
    IF i > Len(ps) THEN [procs |-> ps, ok |-> TRUE]
    ELSE IF ~ExitcodeIsNone(ps[i]) THEN DieFrom(ps, i + 1)
    ELSE IF ps[i].st = "created" THEN [procs |-> ps, ok |-> FALSE]
    ELSE DieFrom([ps EXCEPT ![i].st = "terminated"], i + 1)

die(ps) == DieFrom(ps, 1)

\* for proc in procs: proc.start()
StartProc ==
    /\ pc = "start"
    /\ LET i == CHOOSE k \in 1..Len(procs) :
                   procs[k].st = "created"
                   /\ \A j \in 1..(k - 1) : procs[j].st # "created"
       IN  /\ procs' = [procs EXCEPT ![i].st = "running"]
           /\ pc' = IF i = Len(procs) THEN "join" ELSE "start"
           /\ ji' = IF i = Len(procs) THEN 1 ELSE ji
    /\ UNCHANGED <<call, sequence, funcs, datasets, noniter, bad, numcores, multi,
                   ncpus, num, out_q, err_q, outcome, retval, exc, evals,
                   arrived, interrupted>>
    /\ UNCHANGED notPar

\* A plausible slip: join() given a timeout, so that it returns although
\* the process is still running.
JoinProc_timeout ==
    /\ pc = "join"
    /\ pc' = IF ji = Len(procs) THEN "collect" ELSE "join"
    /\ ji' = IF ji = Len(procs) THEN ji ELSE ji + 1
    /\ UNCHANGED <<call, sequence, funcs, datasets, noniter, bad, numcores,
                   multi, ncpus, procs, num, out_q, err_q, outcome, retval,
                   exc, evals, arrived, interrupted>>
    /\ UNCHANGED notPar

\* for proc in procs: proc.join()   (join blocks while the process runs)
JoinProc ==
    /\ pc = "join"
    /\ procs[ji].st # "running"
    /\ pc' = IF ji = Len(procs) THEN "collect" ELSE "join"
    /\ ji' = IF ji = Len(procs) THEN ji ELSE ji + 1
    /\ UNCHANGED <<call, sequence, funcs, datasets, noniter, bad, numcores, multi,
                   ncpus, procs, num, out_q, err_q, outcome, retval, exc,
                   evals,
                   arrived, interrupted>>
    /\ UNCHANGED notPar

\* except KeyboardInterrupt as e: die(); raise e
KeyboardInterrupt ==
    /\ pc \in {"start", "join"}
    /\ LET d == die(procs) IN
       /\ procs' = d.procs
       /\ Raise(IF d.ok THEN "KeyboardInterrupt" ELSE "AttributeError")
    /\ interrupted' = TRUE
    /\ UNCHANGED <<call, sequence, funcs, datasets, noniter, bad, numcores, multi,
                   ncpus, num, out_q, err_q, ji, evals,
                   arrived>>
    /\ UNCHANGED notPar

\* results = [None] * num, filled from out_q in the order of arrival.
HasResult(q, idx) == \E k \in 1..Len(q) : q[k][1] = idx
LastResult(q, idx) ==
    q[CHOOSE k \in 1..Len(q) :
        q[k][1] = idx /\ \A j \in (k + 1)..Len(q) : q[j][1] # idx][2]

\* A plausible slip: the results taken in their order of arrival.
RECURSIVE ExtendArrival(_, _, _)
ExtendArrival(q, i, n) ==
    IF q = <<>> THEN <<>> ELSE Head(q)[2] \o ExtendArrival(Tail(q), i, n)

\* vals = []; for r in results: vals.extend(r)
RECURSIVE Extend(_, _, _)
Extend(q, i, n) ==
    IF i >= n THEN <<>> ELSE LastResult(q, i) \o Extend(q, i + 1, n)

\* run_tasks after the joins (lines 145-159).
Collect ==
    /\ pc = "collect"
    /\ IF err_q # <<>>
       THEN LET d == die(procs) IN
            /\ procs' = d.procs
            /\ err_q' = IF d.ok THEN Tail(err_q) ELSE err_q
            /\ Raise(IF d.ok THEN Head(err_q) ELSE "AttributeError")
            /\ UNCHANGED out_q
       ELSE /\ IF \E k \in 1..Len(out_q) : out_q[k][1] >= num
               THEN Raise("IndexError")      \* results[idx] = result
               ELSE IF \E i \in 0..(num - 1) : ~HasResult(out_q, i)
               THEN Raise("TypeError")       \* vals.extend(None)
               ELSE Return(Extend(out_q, 0, num))
            /\ out_q' = <<>>
            /\ UNCHANGED <<procs, err_q>>
    /\ UNCHANGED <<call, sequence, funcs, datasets, noniter, bad, numcores, multi,
                   ncpus, num, ji, evals,
                   arrived, interrupted>>
    /\ UNCHANGED notPar

\* ======================================================================
\* The bounded objective: sherpa.optmethods.opt.Opt
\* ======================================================================
\* Parameter values are fixed-point numbers: Scale units make 1.0, so that
\* one unit is the 2.5e-4 of SimplexNoStep.  Objective values are integers.
Scale == 4000

\* FUNC_MAX = np.finfo(np.float64).max: larger than every callback value.
FUNC_MAX == 1000000

Abs(a) == IF a < 0 THEN 0 - a ELSE a
Max(a, b) == IF a >= b THEN a ELSE b
Min(a, b) == IF a <= b THEN a ELSE b

RECURSIVE SumAbs(_)
SumAbs(x) == IF x = <<>> THEN 0 ELSE Abs(Head(x)) + SumAbs(Tail(x))

RECURSIVE Weighted(_, _)
Weighted(x, i) ==
    IF i > Len(x) THEN 0 ELSE i * (x[i] \div 1000) + Weighted(x, i + 1)

\* The user callbacks statfunc(x) the model wraps.
UserFuncs == {1, 2}
UserFunc(sel, x) ==
    IF sel = 1 THEN SumAbs(x) \div 1000 ELSE 3 - Weighted(x, 1)

\* The bound vectors (xmin, xmax) of the model, xmin[i] <= xmax[i].
BoundChoices(n) ==
    {[lo |-> [i \in 1..n |-> 0 - Scale], hi |-> [i \in 1..n |-> Scale]],
     [lo |-> [i \in 1..n |-> 0 - 2 * Scale], hi |-> [i \in 1..n |-> 3 * Scale]]}

\* A plausible slip: a value equal to a bound counts as outside.
outside_limits_strict(x, lo, hi) ==
    \/ \E i \in 1..Len(x) : x[i] <= lo[i]
    \/ \E i \in 1..Len(x) : x[i] >= hi[i]

\* A plausible slip: only the lower bound is tested.
outside_limits_lower(x, lo, hi) ==
    \E i \in 1..Len(x) : x[i] < lo[i]

\* Opt._outside_limits: np.any(x < xmin) or np.any(x > xmax)
outside_limits(x, lo, hi) ==
    \/ \E i \in 1..Len(x) : x[i] < lo[i]
    \/ \E i \in 1..Len(x) : x[i] > hi[i]

\* FuncCounter.__call__: count the call, then invoke the user callback.
\* (val: the value returned; calls: the arguments the callback was invoked
\* with; inc: the increment of nfev)
FuncCounter(sel, x) ==
    [val |-> UserFunc(sel, x), calls |-> <<x>>, inc |-> 1]

\* Opt.func_bounds.func_bounds_wrapper
func_bounds_wrapper(sel, x, lo, hi) ==
    IF outside_limits(x, lo, hi)
    THEN [val |-> FUNC_MAX, calls |-> <<>>, inc |-> 0]
    ELSE FuncCounter(sel, x)

\* The parameter values the model hands to Opt.func.
CoordVals == {0 - 2 * Scale, 0 - Scale, 0, Scale, 2 * Scale}

\* Opt.__init__
OptInit ==
    /\ npar \in {1, 2}
    /\ \E b \in BoundChoices(npar) : xmin = b.lo /\ xmax = b.hi
    /\ fsel \in UserFuncs
    /\ nfev = 0 /\ ncalls = 0 /\ nevals = 0
    /\ lastx = <<>> /\ lastval = 0 /\ lastcalls = <<>>

\* One call of Opt.func(x).
Evaluate ==
    /\ nevals < MaxEvals
    /\ \E x \in [1..npar -> CoordVals] :
         LET r == func_bounds_wrapper(fsel, x, xmin, xmax) IN
         /\ lastx' = x
         /\ lastval' = r.val
         /\ lastcalls' = r.calls
         /\ nfev' = nfev + r.inc
         /\ ncalls' = ncalls + Len(r.calls)
    /\ nevals' = nevals + 1
    /\ UNCHANGED <<npar, xmin, xmax, fsel>>
    /\ UNCHANGED notOpt

OptNext == Evaluate

InitOpt == OptInit /\ ParIdle /\ SimIdle /\ MethIdle /\ SplitIdle
SpecOpt == InitOpt /\ [][OptNext]_vars

\* ======================================================================
\* The simplex: sherpa.optmethods.opt.SimplexBase and its subclasses
\* ======================================================================
Strategies == {"SimplexNoStep", "SimplexStep", "SimplexRandom"}
Npars == {1, 2}
X0Vals == {0 - Scale, 0, Scale}
\* the starting points: every value alone, and pairs that mix zero,
\* positive and negative coordinates
X0Choices(n) ==
    IF n = 1 THEN [1..n -> X0Vals]
    ELSE {<<0 - Scale, 0 - Scale>>, <<0 - Scale, Scale>>, <<0, Scale>>,
          <<Scale, 0>>}
StepVals == {Scale \div 2, Scale}
\* the step vectors: every value alone, equal steps and different steps
StepChoices(n) ==
    IF n = 1 THEN [1..n -> StepVals]
    ELSE {<<Scale \div 2, Scale \div 2>>, <<Scale \div 2, Scale>>}
Factors == {1}
\* ftol as <<p, q>>, standing for p / q
Ftols == {<<1, 2>>, <<2, 1>>}
Methods == {0, 1, 2, 3}
\* shrink_coef as <<p, q>>, standing for p / q
ShrinkCoefs == {<<1, 2>>, <<0, 1>>}
\* the coef of move_vertex as <<p, q>>: a reflection (1) and an inside
\* contraction (-1/2)
MoveCoefs == {<<1, 1>>, <<0 - 1, 2>>}

Params(row) == SubSeq(row, 1, Len(row) - 1)
Fval(row) == row[Len(row)]

\* self.func(x): the bounded objective Opt.func
func(x) == func_bounds_wrapper(fsel, x, xmin, xmax).val
\* the number of callback invocations the evaluation of these points makes
RECURSIVE CountInside(_)
CountInside(pts) ==
    IF pts = <<>> THEN 0
    ELSE func_bounds_wrapper(fsel, Head(pts), xmin, xmax).inc
         + CountInside(Tail(pts))

\* sorted(simp, key=lambda arg: arg[-1]): a stable sort on the last column.
RECURSIVE InsertRow(_, _)
InsertRow(sorted, row) ==
    IF sorted = <<>> THEN <<row>>
    ELSE IF Fval(Head(sorted)) <= Fval(row)
         THEN <<Head(sorted)>> \o InsertRow(Tail(sorted), row)
         ELSE <<row>> \o sorted

RECURSIVE SortInto(_, _)
SortInto(acc, rest) ==
    IF rest = <<>> THEN acc ELSE SortInto(InsertRow(acc, Head(rest)), Tail(rest))

\* A plausible slip: the rows are left in the order they were evaluated.
sort_me_noop(simp) == simp

\* A plausible slip: an unstable sort, rows of equal value change places.
RECURSIVE sort_me_unstable(_)
sort_me_unstable(simp) ==
    IF simp = <<>> THEN <<>>
    ELSE LET rest == sort_me_unstable(Tail(simp))
             lower == SelectSeq(rest, LAMBDA r : Fval(r) <= Fval(Head(simp)))
             upper == SelectSeq(rest, LAMBDA r : Fval(r) > Fval(Head(simp)))
         IN  lower \o <<Head(simp)>> \o upper

\* SimplexBase.sort_me
sort_me(simp) == SortInto(<<>>, simp)

\* SimplexBase.eval_simplex: every row gets its objective value, then the
\* rows are sorted.  (pts holds the parameter part of each row; the last
\* column of np.empty is written here before it is ever read.)
eval_simplex(n, pts) ==
    sort_me([ii \in 1..n |-> Append(pts[ii], func(pts[ii]))])

\* The random generator: a stream of numbers in [0, 1], fixed by its state
\* when the simplex is built.  U(gen, k) is the k-th number of the stream gen
\* (0 or 1 here); the model runs every stream of Seeds.
Seeds == {0, 1, 2, 3}
U(gen, k) ==
    IF gen = 0 THEN k % 2
    ELSE IF gen = 1 THEN (k + 1) % 2
    ELSE IF gen = 2 THEN 0 ELSE 1

\* sherpa.utils.random.uniform(rng, low, high), on the k-th number drawn
uniform(gen, k, low, high) == low + U(gen, k) * (high - low)

\* The seed arguments, the rng arguments (None or the state of the caller's
\* generator) and the states of the process-global generator, each state
\* being the stream the generator will deliver.
SeedArgs == {0, 1}
Rngs == {NoneVal, 2}
GlobalStates == {1, 3}
\* The calls of the model: legacy seeding with either seed, and a caller's
\* generator handed in with either seed.
RngCases ==
    {[rng |-> NoneVal, seed |-> 0, g |-> 1],
     [rng |-> NoneVal, seed |-> 1, g |-> 3],
     [rng |-> 2, seed |-> 0, g |-> 3],
     [rng |-> 2, seed |-> 1, g |-> 1]}

\* np.random.seed(seed): the state of the process-global generator is the
\* one the seed fixes, whatever it was.
np_random_seed(sd, g) == sd

\* A plausible slip: the process-global generator is not reseeded.
GlobalStream_unseeded(r, sd, g) == g

\* init_random_simplex, first statement: the state of the process-global
\* generator once "if self.rng is None: np.random.seed(seed)" has run.
GlobalStream(r, sd, g) == IF r = NoneVal THEN np_random_seed(sd, g) ELSE g

\* The generator uniform(self.rng, ...) draws from: the process-global one
\* when rng is None, the caller's otherwise.
DrawStream(r, sd, g) == IF r = NoneVal THEN GlobalStream(r, sd, g) ELSE r

\* A plausible slip: the draws are not clipped to the bounds.
init_random_simplex_unclipped(r, sd, g, x0, pts, start, n, fac) ==
    IF start >= n THEN pts
    ELSE [ii \in 1..n |->
            IF ii <= start THEN pts[ii]
            ELSE [i \in 1..Len(x0) |->
                    uniform(DrawStream(r, sd, g),
                            (ii - start - 1) * Len(x0) + i,
                            x0[i] - fac * Abs(x0[i]),
                            x0[i] + fac * Abs(x0[i]))]]

\* SimplexBase.init_random_simplex: the rows start+1..n (rows start..npop-1
\* of the code) are drawn, coordinate after coordinate, row after row.
init_random_simplex(r, sd, g, x0, pts, start, n, fac) ==
    IF start >= n THEN pts
    ELSE [ii \in 1..n |->
            IF ii <= start THEN pts[ii]
            ELSE [i \in 1..Len(x0) |->
                    uniform(DrawStream(r, sd, g),
                            (ii - start - 1) * Len(x0) + i,
                            Max(xmin[i], x0[i] - fac * Abs(x0[i])),
                            Min(xmax[i], x0[i] + fac * Abs(x0[i])))]]

\* A plausible slip: a zero coordinate is multiplied by 1.05 like the others.
NoStepRows_nozero(x0) ==
    [r \in 1..(Len(x0) + 1) |->
        IF r = 1 THEN x0
        ELSE [j \in 1..Len(x0) |->
                IF j # r - 1 THEN x0[j] ELSE (x0[j] * 105) \div 100]]

\* SimplexNoStep.init, before init_random_simplex: row 0 is x0, row i+1 is
\* x0 with coordinate i multiplied by 1.05, or set to 2.5e-4 when it is 0.
NoStepRows(x0) ==
    [r \in 1..(Len(x0) + 1) |->
        IF r = 1 THEN x0
        ELSE [j \in 1..Len(x0) |->
                IF j # r - 1 THEN x0[j]
                ELSE IF x0[j] = 0 THEN Scale \div 4000
                ELSE (x0[j] * 105) \div 100]]

\* SimplexStep.init, before init_random_simplex: row 0 is x0; for row i+1,
\* tmp = xpar[ii] + step[ii] is one number, and simplex[ii + 1][:-1] = tmp
\* writes it to every coordinate of the row.
StepRows(x0, st) ==
    [r \in 1..(Len(x0) + 1) |->
        IF r = 1 THEN x0
        ELSE [j \in 1..Len(x0) |-> x0[r - 1] + st[r - 1]]]

\* Rows that init_random_simplex is still to fill.
Unset(n, cols) == [r \in 1..n |-> [j \in 1..cols |-> 0]]
Pad(rows, n, cols) ==
    [r \in 1..n |-> IF r <= Len(rows) THEN rows[r] ELSE Unset(n, cols)[r]]

\* <Subclass>.init up to the call of eval_simplex.
init(strat, r, sd, g, n, x0, st, fac) ==
    IF strat = "SimplexNoStep"
    THEN init_random_simplex(r, sd, g, x0, Pad(NoStepRows(x0), n, Len(x0)),
                             Len(x0) + 1, n, fac)
    ELSE IF strat = "SimplexStep"
    THEN init_random_simplex(r, sd, g, x0, Pad(StepRows(x0, st), n, Len(x0)),
                             Len(x0) + 1, n, fac)
    ELSE init_random_simplex(r, sd, g, x0, Pad(<<x0>>, n, Len(x0)), 1, n, fac)

\* The caller's xpar array after <Subclass>.init: init reads xpar and writes
\* only to copies of it (np.copy(xpar), np.asarray(xpar) read by np.abs).
caller_xpar(strat, x0) == x0

\* ---------------------------------------------------- check_convergence
Dot(a, b) ==
    LET RECURSIVE D(_)
        D(i) == IF i > Len(a) THEN 0 ELSE a[i] * b[i] + D(i + 1)
    IN  D(1)

Sub(a, b) == [i \in 1..Len(a) |-> a[i] - b[i]]

\* A plausible slip: the tolerance multiplies the wrong side.
is_max_length_small_enough_swapped(simp, ftol) ==
    LET x0 == Params(simp[1])
        RECURSIVE MaxLen(_)
        MaxLen(ii) ==
            IF ii > Len(x0) + 1 THEN 0 - 1
            ELSE LET d == Sub(Params(simp[ii]), x0)
                 IN  Max(Dot(d, d), MaxLen(ii + 1))
    IN  MaxLen(2) * ftol[1] <= ftol[2] * Max(Scale * Scale, Dot(x0, x0))

\* is_max_length_small_enough: the rows 1..npar of the code, squared lengths
\* (np.dot), against ftol * max(1.0, np.dot(x0, x0)).
is_max_length_small_enough(simp, ftol) ==
    LET x0 == Params(simp[1])
        RECURSIVE MaxLen(_)
        MaxLen(ii) ==
            IF ii > Len(x0) + 1 THEN 0 - 1
            ELSE LET d == Sub(Params(simp[ii]), x0)
                 IN  Max(Dot(d, d), MaxLen(ii + 1))
    IN  MaxLen(2) * ftol[2] <= ftol[1] * Max(Scale * Scale, Dot(x0, x0))

\* is_fct_stddev_small_enough: np.std of the last column < ftol.  With a
\* FUNC_MAX in the column the squared deviations overflow and np.std is inf.
is_fct_stddev_small_enough(simp, ftol) ==
    LET n == Len(simp)
        RECURSIVE S1(_)
        S1(i) == IF i > n THEN 0 ELSE Fval(simp[i]) + S1(i + 1)
        RECURSIVE S2(_)
        S2(i) == IF i > n THEN 0 ELSE Fval(simp[i]) * Fval(simp[i]) + S2(i + 1)
    IN  IF \E i \in 1..n : Fval(simp[i]) = FUNC_MAX THEN FALSE
        ELSE /\ ftol[1] > 0
             /\ ftol[2] * ftol[2] * (n * S2(1) - S1(1) * S1(1))
                  < ftol[1] * ftol[1] * n * n

\* sherpa.utils.Knuth_close(x, y, tol): |x - y| <= tol * max(|x|, |y|).
\* (FUNC_MAX absorbs every callback value it is added to.)
Knuth_close(x, y, tol) ==
    IF x = FUNC_MAX /\ y = FUNC_MAX THEN TRUE
    ELSE IF x = FUNC_MAX \/ y = FUNC_MAX THEN tol[1] >= tol[2]
    ELSE Abs(x - y) * tol[2] <= tol[1] * Max(Abs(x), Abs(y))

\* are_func_vals_close_enough
are_func_vals_close_enough(simp, ftol) ==
    Knuth_close(Fval(simp[1]), Fval(simp[Len(simp)]), ftol)

\* A plausible slip: method 2 combines the two value tests with "or".
check_convergence_or(simp, ftol, method) ==
    IF method = 0 THEN is_max_length_small_enough(simp, ftol)
    ELSE IF ~is_max_length_small_enough(simp, ftol) THEN FALSE
    ELSE \/ is_fct_stddev_small_enough(simp, ftol)
         \/ are_func_vals_close_enough(simp, ftol)

\* SimplexBase.check_convergence
check_convergence(simp, ftol, method) ==
    IF method = 0
    THEN IF is_max_length_small_enough(simp, ftol) THEN TRUE ELSE FALSE
    ELSE IF method = 2
    THEN IF ~is_max_length_small_enough(simp, ftol) THEN FALSE
         ELSE /\ is_fct_stddev_small_enough(simp, ftol)
              /\ are_func_vals_close_enough(simp, ftol)
    ELSE IF ~is_max_length_small_enough(simp, ftol) THEN FALSE
         ELSE \/ is_fct_stddev_small_enough(simp, ftol)
              \/ are_func_vals_close_enough(simp, ftol)

\* ----------------------------------------------------------------- shrink
\* The row best + coef * (row - best), for coef = c[1] / c[2].
ShrinkRow(best, row, c) ==
    [j \in 1..Len(row) |-> best[j] + (c[1] * (row[j] - best[j])) \div c[2]]

\* The coefficient gives exact values on the parameter part of every row.
ExactCoef(simp, c) ==
    \A ii \in 1..Len(simp) : \A j \in 1..(Len(simp[ii]) - 1) :
        (c[1] * (simp[ii][j] - simp[1][j])) % c[2] = 0

\* A plausible slip: the shrunk rows keep the interpolated last column.
shrink_stale(simp, n, c) ==
    [ii \in 1..Len(simp) |->
        IF ii = 1 \/ ii > n + 1 THEN simp[ii]
        ELSE ShrinkRow(simp[1], simp[ii], c)]

\* SimplexBase.shrink: the rows 1..npar of the code, each re-evaluated.
shrink(simp, n, c) ==
    [ii \in 1..Len(simp) |->
        IF ii = 1 \/ ii > n + 1 THEN simp[ii]
        ELSE LET x == Params(ShrinkRow(simp[1], simp[ii], c))
             IN  Append(x, func(x))]

ShrunkPoints(simp, n, c) ==
    [k \in 1..n |-> Params(ShrinkRow(simp[1], simp[k + 1], c))]

\* ------------------------------------------- calc_centroid, move_vertex
RECURSIVE SumRows(_, _, _)
SumRows(simp, j, ii) ==
    IF ii = 0 THEN 0 ELSE simp[ii][j] + SumRows(simp, j, ii - 1)

\* The mean of the parameter columns of simplex[:-1] has exact values.
ExactCentroid(simp) ==
    \A j \in 1..(Len(simp[1]) - 1) :
        SumRows(simp, j, Len(simp) - 1) % (Len(simp) - 1) = 0

\* SimplexBase.calc_centroid: np.mean(self.simplex[:-1, :], 0), the mean of
\* every row but the last.  (Its parameter part; move_vertex overwrites the
\* mean of the last column before anything reads it.)
calc_centroid(simp) ==
    [j \in 1..(Len(simp[1]) - 1) |->
        SumRows(simp, j, Len(simp) - 1) \div (Len(simp) - 1)]

\* (1.0 + coef) * centroid - coef * row has exact values, coef = c[1] / c[2].
ExactMove(cen, row, c) ==
    \A j \in 1..Len(cen) : (c[1] * (cen[j] - row[j])) % c[2] = 0

\* (1.0 + coef) * centroid - coef * row, on the parameter part
MovedPoint(cen, row, c) ==
    [j \in 1..Len(cen) |-> cen[j] + (c[1] * (cen[j] - row[j])) \div c[2]]

\* SimplexBase.move_vertex: the row moved is self.simplex[self.npar], and
\* the last entry is self.func of the new parameter part.
move_vertex(simp, n, cen, c) ==
    LET x == MovedPoint(cen, simp[n + 1], c) IN Append(x, func(x))

\* the last call of self.func among the evaluations of these points
LastEval(pts) == func_bounds_wrapper(fsel, pts[Len(pts)], xmin, xmax)

IsAscending(simp) ==
    \A i \in 1..(Len(simp) - 1) : Fval(simp[i]) <= Fval(simp[i + 1])

\* ------------------------------------------------------------ Init, steps
\* Opt.__init__, then <Subclass>.__init__ with func = Opt.func
SimInit ==
    /\ npar \in Npars
    /\ \E b \in BoundChoices(npar) : xmin = b.lo /\ xmax = b.hi
    /\ fsel \in UserFuncs
    /\ strategy \in Strategies
    /\ npop \in (npar + 1)..(npar + 1 + MaxExtra)
    /\ xpar \in X0Choices(npar)
    /\ step \in IF strategy = "SimplexStep" THEN StepChoices(npar)
                ELSE {[i \in 1..npar |-> Scale]}
    /\ factor \in Factors
    /\ \E c \in RngCases : rng = c.rng /\ seed = c.seed /\ gbefore = c.g
    /\ built = init(strategy, rng, seed, gbefore, npop, xpar, step, factor)
    /\ gafter = GlobalStream(rng, seed, gbefore)
    /\ xarg = caller_xpar(strategy, xpar)
    /\ simplex = eval_simplex(npop, built)
    /\ nfev = CountInside(built)
    /\ ncalls = CountInside(built)
    /\ nevals = npop
    /\ lastx = built[npop]
    /\ lastval = LastEval(built).val
    /\ lastcalls = LastEval(built).calls
    /\ lastop = "init" /\ presorted = FALSE
    /\ conv = FALSE /\ cftol = <<0, 1>> /\ cmethod = 0 /\ nops = 0
    /\ coef = <<0, 1>> /\ centroid = <<>> /\ vertex = <<>>

\* SimplexBase.sort
Sort ==
    /\ lastop # "none"
    /\ simplex' = sort_me(simplex)
    /\ presorted' = IsAscending(simplex)
    /\ lastop' = "sort"
    /\ UNCHANGED nops
    /\ conv' = FALSE /\ cftol' = <<0, 1>> /\ cmethod' = 0
    /\ UNCHANGED <<simArgs, coef, centroid, vertex>>
    /\ UNCHANGED <<notSim, optVars>>

\* SimplexBase.shrink(shrink_coef)
Shrink ==
    /\ lastop # "none" /\ nops < MaxOps
    /\ \E c \in ShrinkCoefs :
         /\ ExactCoef(simplex, c)
         /\ simplex' = shrink(simplex, npar, c)
         /\ nfev' = nfev + CountInside(ShrunkPoints(simplex, npar, c))
         /\ ncalls' = ncalls + CountInside(ShrunkPoints(simplex, npar, c))
         /\ nevals' = nevals + npar
         /\ lastx' = ShrunkPoints(simplex, npar, c)[npar]
         /\ lastval' = LastEval(ShrunkPoints(simplex, npar, c)).val
         /\ lastcalls' = LastEval(ShrunkPoints(simplex, npar, c)).calls
         /\ coef' = c
    /\ lastop' = "shrink"
    /\ nops' = nops + 1
    /\ conv' = FALSE /\ cftol' = <<0, 1>> /\ cmethod' = 0
    /\ UNCHANGED <<simArgs, presorted, centroid, vertex>>
    /\ UNCHANGED <<npar, xmin, xmax, fsel>>
    /\ UNCHANGED notSim

\* SimplexBase.move_vertex(centroid, coef), on the centroid calc_centroid()
\* returns
MoveVertex ==
    /\ lastop # "none" /\ nops < MaxOps
    /\ ExactCentroid(simplex)
    /\ \E c \in MoveCoefs :
         LET cen == calc_centroid(simplex)
             v == move_vertex(simplex, npar, cen, c)
             r == LastEval(<<Params(v)>>)
         IN  /\ ExactMove(cen, simplex[npar + 1], c)
             /\ centroid' = cen
             /\ coef' = c
             /\ vertex' = v
             /\ nfev' = nfev + r.inc
             /\ ncalls' = ncalls + Len(r.calls)
             /\ lastx' = Params(v)
             /\ lastval' = r.val
             /\ lastcalls' = r.calls
    /\ nevals' = nevals + 1
    /\ lastop' = "move_vertex"
    /\ nops' = nops + 1
    /\ conv' = FALSE /\ cftol' = <<0, 1>> /\ cmethod' = 0
    /\ UNCHANGED <<simArgs, simplex, presorted>>
    /\ UNCHANGED <<npar, xmin, xmax, fsel>>
    /\ UNCHANGED notSim

\* SimplexBase.calc_centroid()
CalcCentroid ==
    /\ lastop # "none" /\ nops < MaxOps
    /\ ExactCentroid(simplex)
    /\ centroid' = calc_centroid(simplex)
    /\ lastop' = "calc_centroid"
    /\ nops' = nops + 1
    /\ conv' = FALSE /\ cftol' = <<0, 1>> /\ cmethod' = 0
    /\ UNCHANGED <<simArgs, simplex, presorted, coef, vertex>>
    /\ UNCHANGED <<notSim, optVars>>

\* A plausible slip: the rows put in order before they are looked at.
CheckConvergence_sorts ==
    /\ lastop # "none"
    /\ \E t \in Ftols, mth \in Methods :
         /\ conv' = check_convergence(sort_me(simplex), t, mth)
         /\ cftol' = t
         /\ cmethod' = mth
    /\ simplex' = sort_me(simplex)
    /\ lastop' = "check_convergence"
    /\ UNCHANGED <<simArgs, presorted, nops, coef, centroid, vertex>>
    /\ UNCHANGED <<notSim, optVars>>

\* SimplexBase.check_convergence(ftol, method)
CheckConvergence ==
    /\ lastop # "none"
    /\ \E t \in Ftols, mth \in Methods :
         /\ conv' = check_convergence(simplex, t, mth)
         /\ cftol' = t
         /\ cmethod' = mth
    /\ lastop' = "check_convergence"
    /\ UNCHANGED <<simArgs, simplex, presorted, nops, coef, centroid, vertex>>
    /\ UNCHANGED <<notSim, optVars>>

SimNext ==
    \/ Sort
    \/ Shrink
    \/ MoveVertex
    \/ CalcCentroid
    \/ CheckConvergence

InitSimplex == SimInit /\ ParIdle /\ MethIdle /\ SplitIdle
SpecSimplex == InitSimplex /\ [][SimNext]_vars

\* ======================================================================
\* OptMethod: sherpa.optmethods.OptMethod
\* ======================================================================
Instances == {1, 2}
\* The optimizer functions wrapped: one with the keywords ftol and maxfev,
\* one whose keywords include an option called name.
OptFuncs == {"neldermead", "custom"}
OptionVals == {1, 2}
\* the name argument of the constructor
MethodNames == {7}
\* the names used in attribute reads, in attribute writes and in writes to
\* the config mapping
ReadNames == {"ftol", "name", "other", "fit"}
WriteNames == {"ftol", "name", "other"}
ItemNames == {"ftol", "name"}
\* what class OptMethod itself defines: methods and the property
ClassAttrs == {"fit", "default_config"}

\* sherpa.utils.get_keyword_defaults(optfunc): the keyword arguments of the
\* function with their defaults, in a new mapping.
get_keyword_defaults(f) ==
    IF f = "neldermead"
    THEN [n \in {"ftol", "maxfev"} |-> IF n = "ftol" THEN 1 ELSE 2]
    ELSE [n \in {"ftol", "name"} |-> IF n = "ftol" THEN 1 ELSE 2]

\* OptMethod._get_default_config, the property default_config
default_config(f) == get_keyword_defaults(f)

\* Which mapping object a config is.  A plausible slip: the defaults of a
\* function built once and handed to every instance that wraps it.
config_id_shared(i) == [owner |-> "function", inst |-> 0, func |-> optfunc[i]]

\* self.config = self.default_config: the new mapping that this call of
\* get_keyword_defaults built, which no other instance holds.
config_id(i) == [owner |-> "instance", inst |-> i, func |-> ""]
defaults_id(f) == [owner |-> "function", inst |-> 0, func |-> f]

\* d[n] = v on a mapping
SetKey(d, n, v) == [k \in DOMAIN d \cup {n} |-> IF k = n THEN v ELSE d[k]]

\* self.config[n] = v on instance i, seen through every holder of that
\* mapping object.
WriteConfig(i, n, v) ==
    /\ config' = [j \in Instances |->
                    IF config_id(j) = config_id(i)
                    THEN SetKey(config[j], n, v) ELSE config[j]]
    /\ defaults' = [f \in OptFuncs |->
                      IF defaults_id(f) = config_id(i)
                      THEN SetKey(defaults[f], n, v) ELSE defaults[f]]

\* OptMethod.__getattr__(name), on the config cfg
OptMethod_getattr(cfg, n) ==
    IF n \in DOMAIN cfg THEN [kind |-> "value", val |-> cfg[n]]
    ELSE [kind |-> "AttributeError", val |-> 0]

\* Reading opt.<n>: the instance __dict__ (name, _optfunc, config), then
\* the class, and __getattr__ only when both have failed.
getattr(i, n) ==
    IF n \in DOMAIN idict[i] THEN [kind |-> "value", val |-> idict[i][n]]
    ELSE IF n \in {"config", "_optfunc"} \cup ClassAttrs
    THEN [kind |-> "object", val |-> 0]
    ELSE OptMethod_getattr(config[i], n)

hasattr(i, n) == getattr(i, n).kind # "AttributeError"

\* np.asarray(pars).ravel() of a bare number, a 1-D or a 2-D sequence
RECURSIVE Flatten(_)
Flatten(rows) == IF rows = <<>> THEN <<>> ELSE Head(rows) \o Flatten(Tail(rows))

\* A plausible slip: np.asarray(pars) without ravel().
np_asarray(p) ==
    IF p.kind = "scalar" THEN [kind |-> "array0", val |-> <<p.val>>]
    ELSE IF p.kind = "array1" THEN p
    ELSE [kind |-> "array2", val |-> Flatten(p.val)]

np_asarray_ravel(p) ==
    IF p.kind = "scalar" THEN [kind |-> "array1", val |-> <<p.val>>]
    ELSE IF p.kind = "array1" THEN p
    ELSE [kind |-> "array1", val |-> Flatten(p.val)]

\* What the wrapped optimizer returns: (success, pars, fval, msg, imsg).
ParsChoices ==
    {[kind |-> "scalar", val |-> 5],
     [kind |-> "array1", val |-> <<5, 6>>],
     [kind |-> "array2", val |-> <<<<5>>, <<6>>>>]}
OptOutputs ==
    {o \in [kind : {"tuple"}, success : BOOLEAN, pars : ParsChoices,
            fval : {3}, msg : {"converged", "maxfev exceeded"},
            imsg : {[nfev |-> 9]}] :
        o.success <=> (o.msg = "converged")}
\* (statargs, statkwargs): None or set
StatArgChoices == {<<NoneVal, NoneVal>>, <<1, NoneVal>>, <<NoneVal, 1>>}

Warning(text, arg) == [level |-> "warning", text |-> text, arg |-> arg]

\* OptMethod.__init__(name, optfunc), for every instance
MethInit ==
    /\ optfunc \in [Instances -> OptFuncs]
    /\ config = [i \in Instances |-> default_config(optfunc[i])]
    /\ \E nm \in MethodNames :
         idict = [i \in Instances |-> [n \in {"name"} |-> nm]]
    /\ mop = "init" /\ minst = 0 /\ mname = "" /\ mval = 0
    /\ mres = [kind |-> "none"]
    /\ output = [kind |-> "none"] /\ optcalls = <<>> /\ log = <<>>
    /\ margs = [kind |-> "none"]
    /\ defaults = [f \in OptFuncs |-> default_config(f)]

\* v = opt.<n>
GetAttr ==
    /\ mop # "none"
    /\ \E i \in Instances, n \in ReadNames :
         /\ minst' = i /\ mname' = n
         /\ mres' = getattr(i, n)
    /\ mop' = "getattr" /\ mval' = 0 /\ log' = <<>>
    /\ output' = [kind |-> "none"] /\ optcalls' = <<>>
    /\ margs' = [kind |-> "none"]
    /\ UNCHANGED <<optfunc, config, idict, defaults>>
    /\ UNCHANGED notMeth

\* opt.<n> = v: OptMethod.__setattr__, which writes config[n] when n is an
\* option and otherwise hands over to NoNewAttributesAfterInit.__setattr__
\* (an attribute the object does not have cannot be created).
SetAttr ==
    /\ mop # "none"
    /\ \E i \in Instances, n \in WriteNames, v \in OptionVals :
         /\ minst' = i /\ mname' = n /\ mval' = v
         /\ IF n \in DOMAIN config[i]
            THEN /\ WriteConfig(i, n, v)
                 /\ idict' = idict
                 /\ mres' = [kind |-> "none"]
            ELSE IF ~hasattr(i, n)
            THEN /\ UNCHANGED <<config, idict, defaults>>
                 /\ mres' = [kind |-> "AttributeError", val |-> 0]
            ELSE /\ idict' = [idict EXCEPT ![i] = [@ EXCEPT ![n] = v]]
                 /\ UNCHANGED <<config, defaults>>
                 /\ mres' = [kind |-> "none"]
    /\ mop' = "setattr" /\ log' = <<>>
    /\ output' = [kind |-> "none"] /\ optcalls' = <<>>
    /\ margs' = [kind |-> "none"]
    /\ UNCHANGED optfunc
    /\ UNCHANGED notMeth

\* opt.config[n] = v
SetItem ==
    /\ mop # "none"
    /\ \E i \in Instances, n \in ItemNames, v \in OptionVals :
         /\ minst' = i /\ mname' = n /\ mval' = v
         /\ WriteConfig(i, n, v)
    /\ mop' = "setitem" /\ mres' = [kind |-> "none"] /\ log' = <<>>
    /\ output' = [kind |-> "none"] /\ optcalls' = <<>>
    /\ margs' = [kind |-> "none"]
    /\ UNCHANGED <<optfunc, idict>>
    /\ UNCHANGED notMeth

\* The arguments of a fit call: two parameters and no statargs, or one
\* parameter and statargs or statkwargs.
FitArgs(sa) ==
    IF sa = <<NoneVal, NoneVal>>
    THEN [statfunc |-> "chi2", pars |-> <<1, 2>>, parmins |-> <<0, 0>>,
          parmaxes |-> <<3, 3>>, statargs |-> sa[1], statkwargs |-> sa[2]]
    ELSE [statfunc |-> "cash", pars |-> <<2>>, parmins |-> <<1>>,
          parmaxes |-> <<4>>, statargs |-> sa[1], statkwargs |-> sa[2]]
FitArgChoices == {FitArgs(sa) : sa \in StatArgChoices}

\* A plausible slip: the optimizer called with its declared defaults.
optfunc_call_defaults(f, fa, cfg) ==
    [func |-> f,
     args |-> <<fa.statfunc, fa.pars, fa.parmins, fa.parmaxes>>,
     kwargs |-> default_config(f)]

\* self._optfunc(statfunc, pars, parmins, parmaxes, **self.config)
optfunc_call(f, fa, cfg) ==
    [func |-> f,
     args |-> <<fa.statfunc, fa.pars, fa.parmins, fa.parmaxes>>,
     kwargs |-> cfg]

\* OptMethod.fit(statfunc, pars, parmins, parmaxes, statargs, statkwargs)
Fit ==
    /\ mop # "none"
    /\ \E i \in Instances, fa \in FitArgChoices, out \in OptOutputs :
         /\ minst' = i
         /\ margs' = [kind |-> "fit", statfunc |-> fa.statfunc,
                      pars |-> fa.pars, parmins |-> fa.parmins,
                      parmaxes |-> fa.parmaxes, statargs |-> fa.statargs,
                      statkwargs |-> fa.statkwargs]
         /\ optcalls' = <<optfunc_call(optfunc[i], fa, config[i])>>
         /\ output' = out
         /\ log' = (IF fa.statargs # NoneVal \/ fa.statkwargs # NoneVal
                    THEN <<Warning("statargs/kwargs set but values unused", "")>>
                    ELSE <<>>)
                   \o (IF ~out.success
                       THEN <<Warning("fit failed: %s", out.msg)>>
                       ELSE <<>>)
         /\ mres' = [kind |-> "tuple", success |-> out.success,
                     pars |-> np_asarray_ravel(out.pars), fval |-> out.fval,
                     msg |-> out.msg, imsg |-> out.imsg]
    /\ mop' = "fit" /\ mname' = "" /\ mval' = 0
    /\ UNCHANGED <<optfunc, config, idict, defaults>>
    /\ UNCHANGED notMeth

\* The pickled states handed to __setstate__: the __dict__ of an OptMethod
\* saved by some version of the code, whose config may lack keywords the
\* optimizer has now and may hold a keyword (verbose) it no longer has.
PickledVal == 2
PickledKeys == {"ftol", "maxfev", "verbose"}
PickledStates ==
    {[name |-> nm, optfunc |-> f, config |-> [k \in ks |-> PickledVal]] :
        nm \in MethodNames, f \in OptFuncs, ks \in SUBSET PickledKeys}

\* The two loops of __setstate__ on old_config.  old_config.pop(key) inside
\* `for key in old_config.keys()` changes the size of the dict being
\* iterated: the iterator raises RuntimeError at its next step, also when
\* the key removed was the last one.
setstate_config(old_config, new_config) ==
    IF \E key \in DOMAIN old_config : key \notin DOMAIN new_config
    THEN [kind |-> "RuntimeError", config |-> old_config]
    ELSE [kind |-> "none",
          config |-> [key \in DOMAIN old_config \cup DOMAIN new_config |->
                        IF key \in DOMAIN old_config THEN old_config[key]
                        ELSE new_config[key]]]

\* opt = pickle.loads(...) of a saved copy of instance i:
\* OptMethod.__setstate__(state) on a new object, which takes the place of
\* instance i when the restore completes.
SetState ==
    /\ mop # "none"
    /\ \E i \in Instances :
       \E state \in {st \in PickledStates : st.optfunc = optfunc[i]} :
         LET new_config == get_keyword_defaults(state.optfunc)
             r == setstate_config(state.config, new_config)
         IN  /\ minst' = i
             /\ margs' = [kind |-> "state", name |-> state.name,
                          optfunc |-> state.optfunc, config |-> state.config]
             /\ mres' = [kind |-> r.kind, val |-> 0]
             /\ IF r.kind = "none"
                THEN /\ optfunc' = [optfunc EXCEPT ![i] = state.optfunc]
                     /\ config' = [config EXCEPT ![i] = r.config]
                     /\ idict' = [idict EXCEPT ![i] =
                                     [n \in {"name"} |-> state.name]]
                ELSE UNCHANGED <<optfunc, config, idict>>
    /\ mop' = "setstate" /\ mname' = "" /\ mval' = 0 /\ log' = <<>>
    /\ output' = [kind |-> "none"] /\ optcalls' = <<>>
    /\ UNCHANGED defaults
    /\ UNCHANGED notMeth

MethNext ==
    \/ GetAttr
    \/ SetAttr
    \/ SetItem
    \/ Fit
    \/ SetState

InitMeth == MethInit /\ ParIdle /\ OptIdle /\ SimIdle /\ SplitIdle
SpecMeth == InitMeth /\ [][MethNext]_vars

ParNext ==
    \/ ParallelMap
    \/ ParallelMapFuncs
    \/ MyNcoresCalc
    \/ StartProc
    \/ JoinProc
    \/ KeyboardInterrupt
    \/ Collect
    \/ \E w \in 1..Len(procs) : WorkerMapRaises(w)
    \/ \E w \in 1..Len(procs) : WorkerEval(w)
    \/ \E w \in 1..Len(procs) : WorkerPut(w)

InitPar == ParInit /\ OptIdle /\ SimIdle /\ MethIdle /\ SplitIdle
SpecPar == InitPar /\ [][ParNext]_vars

\* The same dispatcher under its scheduling: the orchestrating process
\* keeps running its code, and a started worker process keeps running
\* until it exits (the hypothesis "every worker eventually exits").
Orchestrator ==
    \/ ParallelMap
    \/ ParallelMapFuncs
    \/ MyNcoresCalc
    \/ StartProc
    \/ JoinProc
    \/ Collect

Workers ==
    \E w \in 1..Len(procs) :
        WorkerMapRaises(w) \/ WorkerEval(w) \/ WorkerPut(w)

SpecParFair == SpecPar /\ WF_vars(Orchestrator) /\ WF_vars(Workers)

SplitNext == Split

InitSplit == SplitInit /\ ParIdle /\ OptIdle /\ SimIdle /\ MethIdle
SpecSplit == InitSplit /\ [][SplitNext]_vars

\* ======================================================================
\* The claims about the parallel dispatcher (checked under SpecPar)
\* ======================================================================

\* C1: for N >= 1 items and 1 <= numcores <= N, whenever parallel_map
\* returns, it returns list(map(f, seq)): same length, same order, whatever
\* the order in which the workers finished and their results arrived.
C1_ParallelMapOrder ==
    (/\ call = "parallel_map" /\ outcome = "returned"
     /\ Len(sequence) >= 1 /\ numcores \in 1..Len(sequence))
    => retval = MapList(1, sequence)

\* The multi-process path returned although a later chunk arrived first.
C1_Witness ==
    /\ call = "parallel_map" /\ outcome = "returned"
    /\ Len(sequence) = 3 /\ numcores = 3
    /\ arrived = <<2, 0, 1>>

\* C2 (as claimed): when a work item raises inside a worker, and no
\* KeyboardInterrupt intervenes, parallel_map raises that same exception
\* type and returns no list.
C2_WorkerExceptionReraised ==
    (/\ call = "parallel_map" /\ pc = "done" /\ ~interrupted
     /\ \E w \in 1..Len(procs) : procs[w].st = "failed")
    => (outcome = "raised" /\ exc = "ValueError")

\* The result of process w never reached out_q.
ChunkMissing(w) == \A k \in 1..Len(arrived) : arrived[k] # procs[w].ii

\* C3 (as claimed): whenever the result of some chunk handed to run_tasks
\* is missing, the call raises instead of returning a partial list.
C3_AllOrNothing ==
    (/\ pc = "done" /\ ~interrupted
     /\ \E w \in 1..Len(procs) : ChunkMissing(w))
    => outcome = "raised"

\* C4 (as claimed): a KeyboardInterrupt that reaches run_tasks while it
\* starts or joins the workers leaves no worker running and is the exception
\* that propagates.
C4_KeyboardInterruptPropagates ==
    interrupted =>
        (/\ outcome = "raised" /\ exc = "KeyboardInterrupt"
         /\ \A w \in 1..Len(procs) : procs[w].st # "running")

\* ======================================================================
\* The claims about the bounded objective (checked under SpecOpt)
\* ======================================================================
\* The claims' own reading of "outside" and "inside" the bounds.
ClaimOutside(x) == \E i \in 1..Len(x) : x[i] < xmin[i] \/ x[i] > xmax[i]
ClaimInside(x) == \A i \in 1..Len(x) : xmin[i] <= x[i] /\ x[i] <= xmax[i]

\* C5: a call of Opt.func with some component strictly below xmin[i] or
\* strictly above xmax[i] returns FUNC_MAX, does not invoke the wrapped
\* callback, and leaves nfev unchanged.
C5_OutsideReturnsSentinel ==
    [][(nevals' = nevals + 1 /\ ClaimOutside(lastx'))
        => (/\ lastval' = FUNC_MAX
            /\ lastcalls' = <<>>
            /\ ncalls' = ncalls
            /\ nfev' = nfev)]_vars

\* After an evaluation that counted, a point above an upper bound (and not
\* below any lower bound) came back as the sentinel.
C5_Witness ==
    /\ nevals > 1 /\ nfev > 0
    /\ \E i \in 1..Len(lastx) : lastx[i] > xmax[i]
    /\ \A i \in 1..Len(lastx) : lastx[i] >= xmin[i]
    /\ lastval = FUNC_MAX

\* C6: a call of Opt.func with every component inside its bounds (a value
\* equal to a bound is inside) invokes the wrapped callback exactly once,
\* with x, and returns its value; nfev starts at 0, never decreases and
\* always equals the number of invocations of the wrapped callback.
C6_InsideInvokesOnce ==
    /\ nfev = 0
    /\ [](nfev = ncalls)
    /\ [][/\ nfev' >= nfev
          /\ (nevals' = nevals + 1 /\ ClaimInside(lastx'))
              => (/\ lastcalls' = <<lastx'>>
                  /\ lastval' = UserFunc(fsel, lastx')
                  /\ nfev' = nfev + 1)]_vars

\* A point with a component exactly on its upper bound was evaluated by the
\* callback, after an earlier evaluation.
C6_Witness ==
    /\ nfev > 1
    /\ ClaimInside(lastx)
    /\ \E i \in 1..Len(lastx) : lastx[i] = xmax[i]
    /\ lastcalls = <<lastx>>

\* ======================================================================
\* The claims about the simplex (checked under SpecSimplex)
\* ======================================================================

\* C7: after construction by any of the three strategies, and after any
\* call of sort(), the rows are in ascending order of their last column:
\* row 0 is the best vertex, the last row the worst.
C7_SortedAfterInitAndSort ==
    lastop \in {"init", "sort"} => IsAscending(simplex)

\* sort() was called on rows that were out of order.
C7_Witness ==
    /\ lastop = "sort" /\ ~presorted
    /\ Fval(simplex[1]) < Fval(simplex[npop])

EuclidCriterion(simp, ftol) ==
    LET x0 == Params(simp[1]) IN
    \A ii \in 2..Len(simp) :
        LET d == Sub(Params(simp[ii]), x0) IN
        ftol[2] * ftol[2] * Dot(d, d)
            <= ftol[1] * ftol[1] * Max(Scale * Scale, Dot(x0, x0))

\* C9 (as claimed): criterion A, which is what method 0 returns, holds
\* exactly when the largest Euclidean distance from the best vertex to any
\* other vertex is <= ftol * max(1, ||x_0||).
C9_MaxLengthEuclidean ==
    (lastop = "check_convergence" /\ cmethod = 0)
    => (conv <=> EuclidCriterion(simplex, cftol))

\* C10 (as claimed): SimplexStep builds, before sorting, the vertex x0 and,
\* for each i, one vertex equal to x0 in every coordinate except coordinate
\* i, which is x0[i] + step[i].
C10_StepVertices ==
    strategy = "SimplexStep" =>
        /\ built[1] = xpar
        /\ \A i \in 1..npar :
             built[i + 1] = [j \in 1..npar |->
                               IF j = i THEN xpar[i] + step[i] ELSE xpar[j]]

\* C11: SimplexNoStep builds, before sorting, the vertex x0 and, for each
\* i, one vertex equal to x0 except in coordinate i, which is 1.05 * x0[i]
\* when x0[i] is non-zero and 2.5e-4 when it is zero; the caller's x0 array
\* is not modified.
C11_NoStepVertices ==
    (strategy = "SimplexNoStep" /\ lastop = "init") =>
        /\ built[1] = xpar
        /\ \A i \in 1..npar : \A j \in 1..npar :
             IF j # i THEN built[i + 1][j] = xpar[j]
             ELSE IF xpar[i] = 0 THEN 4000 * built[i + 1][i] = Scale
             ELSE 100 * built[i + 1][i] = 105 * xpar[i]
        /\ xarg = xpar

\* A SimplexNoStep simplex on a starting point with a zero and a non-zero
\* coordinate.
C11_Witness ==
    /\ strategy = "SimplexNoStep" /\ lastop = "init" /\ npar = 2
    /\ xpar[1] = 0 /\ xpar[2] # 0
    /\ built[2][1] # 0 /\ built[3][2] # xpar[2]

\* the rows init_random_simplex draws: all but x0 for SimplexRandom, those
\* after the first npar + 1 for the other strategies
RandomRows ==
    IF strategy = "SimplexRandom" THEN 2..npop ELSE (npar + 2)..npop

\* C12: for x0 inside the bounds, every coordinate i of every randomly
\* drawn vertex is in [max(xmin[i], x0[i] - factor*|x0[i]|),
\* min(xmax[i], x0[i] + factor*|x0[i]|)], hence inside the bounds; and x0
\* with its objective value is one of the rows of the initial simplex.
C12_RandomVerticesInBounds ==
    (lastop = "init" /\ ClaimInside(xpar)) =>
        /\ \A r \in RandomRows : \A i \in 1..npar :
             /\ built[r][i] >= Max(xmin[i], xpar[i] - factor * Abs(xpar[i]))
             /\ built[r][i] <= Min(xmax[i], xpar[i] + factor * Abs(xpar[i]))
             /\ xmin[i] <= built[r][i] /\ built[r][i] <= xmax[i]
        /\ built[1] = xpar
        /\ \E r \in 1..npop : simplex[r] = Append(xpar, UserFunc(fsel, xpar))

\* A SimplexRandom simplex in which a draw landed on a bound that cuts the
\* interval x0 +- factor*|x0| short.
C12_Witness ==
    /\ strategy = "SimplexRandom" /\ lastop = "init" /\ npop > 2
    /\ \E r \in 2..npop : built[r] # xpar
    /\ \E r \in 2..npop : \E i \in 1..npar :
         /\ built[r][i] = xmax[i]
         /\ xpar[i] + factor * Abs(xpar[i]) > xmax[i]

\* C13: SimplexRandom is deterministic.  With an explicit rng the vertices
\* are a function of the rng's state and the inputs only: the seed argument
\* is ignored and the process-global generator is not reseeded.  With
\* rng=None the process-global generator is reseeded with seed, so the same
\* seed and inputs give the same simplex whatever state the global
\* generator was in.
C13_RandomInitDeterministic ==
    (strategy = "SimplexRandom" /\ lastop = "init") =>
        /\ rng # NoneVal =>
             /\ \A sd \in SeedArgs \cup Seeds : \A g \in Seeds :
                  init(strategy, rng, sd, g, npop, xpar, step, factor) = built
             /\ gafter = gbefore
        /\ rng = NoneVal =>
             /\ \A g \in Seeds :
                  init(strategy, rng, seed, g, npop, xpar, step, factor) = built
             /\ gafter = seed
        /\ simplex = eval_simplex(npop, built)

\* A legacy-seeded SimplexRandom simplex whose global generator was in a
\* state that would have given other vertices.
C13_Witness ==
    /\ strategy = "SimplexRandom" /\ lastop = "init"
    /\ rng = NoneVal /\ gbefore # seed
    /\ init(strategy, 2, seed, gbefore, npop, xpar, step, factor) # built
    /\ \E r \in 2..npop : built[r] # xpar

\* C14 (as claimed): move_vertex(centroid, coef) returns the row whose
\* parameter part is (1 + coef) * centroid - coef * worst, worst being the
\* last row of the sorted simplex whatever npop >= npar + 1 is, and whose
\* last entry is the bounded objective at that parameter part.
C14_MoveVertexFromWorst ==
    (lastop = "move_vertex" /\ IsAscending(simplex)) =>
        LET worst == simplex[npop] IN
        /\ Len(vertex) = npar + 1
        /\ \A j \in 1..npar :
             coef[2] * vertex[j]
                = (coef[2] + coef[1]) * centroid[j] - coef[1] * worst[j]
        /\ Fval(vertex) = func(Params(vertex))

\* C15 (as claimed): shrink(coef) replaces every row but row 0 by
\* best + coef * (row - best) with its objective value re-evaluated,
\* whatever npop >= npar + 1 is; row 0 is unchanged and one objective
\* evaluation is made per replaced row.
C15_ShrinkAllRows ==
    [][lastop' = "shrink" =>
        /\ simplex'[1] = simplex[1]
        /\ \A ii \in 2..npop : \A j \in 1..npar :
             coef'[2] * simplex'[ii][j]
                = coef'[2] * simplex[1][j]
                  + coef'[1] * (simplex[ii][j] - simplex[1][j])
        /\ \A ii \in 2..npop :
             Fval(simplex'[ii]) = func(Params(simplex'[ii]))
        /\ nevals' = nevals + (npop - 1)]_vars

\* C16: after initialisation, after any shrink, and for the row any
\* move_vertex returns, the last column of every row is the bounded
\* objective at the row's parameter part; sorting keeps the pairing.
C16_RowsPairedWithValues ==
    /\ lastop # "none" =>
         \A r \in 1..npop : Fval(simplex[r]) = func(Params(simplex[r]))
    /\ vertex # <<>> => Fval(vertex) = func(Params(vertex))

\* A shrink moved a row from outside the bounds to a point inside them.
C16_Witness ==
    /\ lastop = "shrink" /\ coef = <<1, 2>>
    /\ \E r \in 2..(npar + 1) :
         /\ simplex[r] # simplex[1]
         /\ Fval(simplex[r]) # FUNC_MAX
         /\ \E b \in 1..npop :
              /\ Fval(eval_simplex(npop, built)[b]) = FUNC_MAX
              /\ 2 * Params(simplex[r])[1]
                   = simplex[1][1] + eval_simplex(npop, built)[b][1]

\* the rows of simp whose value is v, in their order
RowsWithValue(simp, v) == SelectSeq(simp, LAMBDA r : Fval(r) = v)
\* how many times row occurs in simp
Occurrences(simp, row) ==
    Cardinality({i \in 1..Len(simp) : simp[i] = row})

\* C17: sort() is idempotent and only permutes rows: an already sorted
\* simplex is left unchanged, the multiset of rows is the same before and
\* after, and rows of equal value keep their relative order.
C17_SortIdempotentPermutation ==
    [][lastop' = "sort" =>
        /\ IsAscending(simplex) => simplex' = simplex
        /\ Len(simplex') = Len(simplex)
        /\ \A i \in 1..npop :
             Occurrences(simplex', simplex[i]) = Occurrences(simplex, simplex[i])
        /\ \A i \in 1..npop :
             RowsWithValue(simplex', Fval(simplex[i]))
                = RowsWithValue(simplex, Fval(simplex[i]))
        /\ sort_me(simplex') = simplex']_vars

\* sort() was called on a sorted simplex in which two different rows have
\* the same value.
C17_Witness ==
    /\ lastop = "sort" /\ presorted
    /\ \E i \in 1..(npop - 1) :
         /\ Fval(simplex[i]) = Fval(simplex[i + 1])
         /\ simplex[i] # simplex[i + 1]

\* the tolerances compared, and their order
FtolsWide == {<<0, 1>>, <<1, 4>>, <<1, 2>>, <<1, 1>>, <<2, 1>>}
FtolLeq(t1, t2) == t1[1] * t2[2] <= t2[1] * t1[2]

\* C18: check_convergence with method 0 is monotonic in ftol: on any
\* simplex, True for some ftol implies True for every larger ftol.
C18_MethodZeroMonotonic ==
    lastop # "none" =>
        LET Converged == {t \in FtolsWide : check_convergence(simplex, t, 0)}
        IN  \A t1 \in Converged : \A t2 \in FtolsWide :
                FtolLeq(t1, t2) => t2 \in Converged

\* check_convergence(1/2, 0) answered True on a simplex for which a
\* smaller tolerance gives False.
C18_Witness ==
    /\ lastop = "check_convergence" /\ cmethod = 0 /\ conv
    /\ cftol = <<1, 2>>
    /\ ~check_convergence(simplex, <<1, 4>>, 0)
    /\ check_convergence(simplex, <<2, 1>>, 0)

\* ======================================================================
\* The claims about OptMethod (checked under SpecMeth)
\* ======================================================================

\* the values of pars, in order, as one flat sequence
FlatValues(p) ==
    IF p.kind = "scalar" THEN <<p.val>>
    ELSE IF p.kind = "array1" THEN p.val
    ELSE Flatten(p.val)

\* C19: OptMethod.fit returns (success, bestpars, bestval, message, info)
\* with success, bestval, message and info exactly as the wrapped optimizer
\* returned them and bestpars a 1-D array of the optimizer's best
\* parameters, also when the optimizer returned a bare number; when success
\* is False the tuple is still returned, a warning is logged and nothing is
\* raised.
C19_FitReturnsOptimizerResult ==
    mop = "fit" =>
        /\ mres.kind = "tuple"
        /\ mres.success = output.success
        /\ mres.fval = output.fval
        /\ mres.msg = output.msg
        /\ mres.imsg = output.imsg
        /\ mres.pars.kind = "array1"
        /\ mres.pars.val = FlatValues(output.pars)
        /\ ~output.success =>
             \E k \in 1..Len(log) :
                /\ log[k].level = "warning"
                /\ log[k].arg = output.msg

\* fit returned for an optimizer that failed and gave a bare number.
C19_Witness ==
    /\ mop = "fit" /\ mres.kind = "tuple"
    /\ ~output.success /\ ~mres.success
    /\ output.pars.kind = "scalar"
    /\ mres.pars.val = <<5>>
    /\ Len(log) = 2

\* C20 (as claimed): for any option name in config, reading opt.<name>
\* returns config[name], and opt.<name> = v updates config[name] without
\* creating an instance attribute; a name that is not in config is handled
\* as an ordinary attribute and never enters config.
C20_ConfigAttributeRouting ==
    [][/\ (mop' = "getattr" /\ mname' \in DOMAIN config[minst'])
          => (/\ mres'.kind = "value"
              /\ mres'.val = config[minst'][mname'])
       /\ (mop' = "setattr" /\ mname' \in DOMAIN config[minst'])
          => (/\ config'[minst'][mname'] = mval'
              /\ DOMAIN config'[minst'] = DOMAIN config[minst']
              /\ idict' = idict)
       /\ (mop' = "setattr" /\ mname' \notin DOMAIN config[minst'])
          => config' = config]_vars

\* ======================================================================
\* Further claims about the parallel dispatcher (SpecPar, SpecParFair,
\* SpecSplit)
\* ======================================================================
\* The claim's own reading of malformed input: a function that is not
\* callable, an argument that is not iterable, funcs and datasets of
\* different lengths.
Malformed ==
    \/ /\ call = "parallel_map"
       /\ (funcs[1] = NotCallable \/ "sequence" \in noniter)
    \/ /\ call = "parallel_map_funcs"
       /\ \/ noniter # {}
          \/ \E i \in 1..Len(funcs) : funcs[i] = NotCallable
          \/ Len(funcs) # Len(datasets)
    \/ /\ call = "calc"
       /\ \E i \in 1..Len(funcs) : funcs[i] = NotCallable

\* C23: malformed input never gets past the entry of parallel_map,
\* parallel_map_funcs and MyNcores.calc: the call raises TypeError, no
\* process is created or started, nothing is put on a queue and no item is
\* evaluated.
C23_MalformedRejectedFirst ==
    Malformed =>
        /\ pc \in {"entry", "done"}
        /\ procs = <<>> /\ out_q = <<>> /\ err_q = <<>>
        /\ \A i \in 1..Len(evals) : evals[i] = 0
        /\ pc = "done" => (outcome = "raised" /\ exc = "TypeError")

\* parallel_map_funcs on the multi-process path rejected funcs and datasets
\* of different lengths, everything else being well formed.
C23_Witness ==
    /\ call = "parallel_map_funcs" /\ pc = "done" /\ exc = "TypeError"
    /\ multi /\ numcores = 2 /\ noniter = {}
    /\ Len(funcs) = 1 /\ Len(datasets) = 2 /\ funcs[1] # NotCallable
    /\ procs = <<>>

\* The values of funcs[i] operating on datasets[i], in the order of i:
\* on the dataset as a whole, or on each of its elements.
FuncsOnWhole == [i \in 1..Len(datasets) |-> ApplyWhole(funcs[i], datasets[i])]

RECURSIVE FuncsOnItems(_)
FuncsOnItems(i) ==
    IF i > Len(datasets) THEN <<>>
    ELSE MapList(funcs[i], datasets[i].items) \o FuncsOnItems(i + 1)

\* C24 (as claimed): with well-formed arguments, every dataset a list, and
\* no item failing, parallel_map_funcs returns the values of funcs[i] on
\* datasets[i] in the order of i, whatever numcores is.
C24_FuncsIndependentOfNumcores ==
    (/\ call = "parallel_map_funcs" /\ ~Malformed
     /\ pc = "done" /\ ~interrupted /\ bad = {}
     /\ \A i \in 1..Len(datasets) : datasets[i].iter)
    => (/\ outcome = "returned"
        /\ retval \in {FuncsOnWhole, FuncsOnItems(1)})

\* The boundaries of the chunks of sp_chunks, from their lengths.
RECURSIVE Boundary(_)
Boundary(i) == IF i = 0 THEN 0 ELSE Boundary(i - 1) + Len(sp_chunks[i])

\* b is i*N/m rounded to the nearest integer, a half going to the even one.
IsRounded(b, i, n, mm) ==
    /\ 2 * Abs(mm * b - i * n) <= mm
    /\ (2 * Abs(mm * b - i * n) = mm) => (b % 2 = 0)

Owns(w, i) ==
    /\ procs[w].off < i /\ i <= procs[w].off + Len(procs[w].chunk)
    /\ procs[w].chunk[i - procs[w].off] = sequence[i]

C27_RunTasksWaitsForAll ==
    /\ [](pc = "join" => \A w \in 1..Len(procs) : procs[w].st # "created")
    /\ [](pc = "collect" =>
            \A w \in 1..Len(procs) : procs[w].st \in {"done", "failed"})
    /\ [][(pc = "join" /\ procs[ji].st = "running")
           => ((pc' = "join" /\ ji' = ji) \/ interrupted')]_vars
    /\ <>(pc = "done")

\* run_tasks reached the queues after a worker had failed and a later one
\* had delivered its result.
C27_Witness ==
    /\ pc = "collect" /\ Len(procs) >= 2
    /\ procs[1].st = "failed"
    /\ \E w \in 2..Len(procs) : procs[w].st = "done" /\ ~ChunkMissing(w)

\* C30 (as claimed): parallel_map of an empty sequence returns an empty
\* list and raises nothing, whatever numcores and _multi are.
C30_EmptyInputReturnsEmpty ==
    (/\ call = "parallel_map" /\ ~Malformed
     /\ sequence = <<>> /\ pc = "done")
    => (outcome = "returned" /\ retval = <<>>)

\* ======================================================================
\* Further claims about OptMethod (checked under SpecMeth)
\* ======================================================================
\* the warning of fit about statargs/statkwargs is in the log
UnusedWarned(lg) ==
    \E k \in 1..Len(lg) :
        /\ lg[k].level = "warning"
        /\ lg[k].text = "statargs/kwargs set but values unused"

\* C21: every fit calls the wrapped optimizer exactly once, with the
\* statfunc, pars, parmins and parmaxes it was given and with the current
\* config as the keyword arguments; statargs and statkwargs are not passed
\* on, and a warning is logged when either is not None; fit changes no
\* config, so the options the caller set are still there at the next fit.
C21_FitCallsOptimizerOnce ==
    [][mop' = "fit" =>
        /\ Len(optcalls') = 1
        /\ optcalls'[1].func = optfunc[minst']
        /\ optcalls'[1].args = <<margs'.statfunc, margs'.pars,
                                 margs'.parmins, margs'.parmaxes>>
        /\ optcalls'[1].kwargs = config[minst']
        /\ (margs'.statargs # NoneVal \/ margs'.statkwargs # NoneVal)
             => UnusedWarned(log')
        /\ config' = config /\ optfunc' = optfunc
        /\ idict' = idict /\ defaults' = defaults]_vars

\* A fit with statargs set handed the optimizer an ftol that is not the
\* default 1, and logged the warning.
C21_Witness ==
    /\ mop = "fit" /\ optfunc[minst] = "neldermead"
    /\ config[minst]["ftol"] = 2 /\ "name" \notin DOMAIN config[minst]
    /\ Len(optcalls) = 1 /\ optcalls[1].kwargs["ftol"] = 2
    /\ margs.statargs # NoneVal /\ UnusedWarned(log)

\* ======================================================================
\* A further claim about the simplex (checked under SpecSimplex)
\* ======================================================================
\* C28: check_convergence changes no row of the simplex and evaluates
\* nothing (nfev and the calls of the objective stay as they were), and
\* the same query asked again gets the same answer; calc_centroid changes
\* no row and evaluates nothing either.
C28_ConvergenceQueryPure ==
    [][/\ lastop' \in {"check_convergence", "calc_centroid"}
          => (/\ simplex' = simplex
              /\ nfev' = nfev /\ ncalls' = ncalls /\ nevals' = nevals)
       /\ (/\ lastop = "check_convergence" /\ lastop' = "check_convergence"
           /\ cftol' = cftol /\ cmethod' = cmethod)
          => conv' = conv]_vars

\* check_convergence answered True on rows that a shrink had left out of
\* order.
C28_Witness ==
    /\ lastop = "check_convergence" /\ conv
    /\ nops = 1 /\ centroid = <<>> /\ vertex = <<>>
    /\ ~IsAscending(simplex)

\* C22: an attribute write or a config write on one instance leaves the
\* config and the attributes of every other instance as they were, also
\* when both wrap the same optimizer function, and what default_config
\* returns stays the declared defaults of the function.
C22_ConfigPerInstance ==
    [][mop' \in {"setattr", "setitem"} =>
        /\ \A j \in Instances \ {minst'} :
               config'[j] = config[j] /\ idict'[j] = idict[j]
        /\ \A f \in OptFuncs : defaults'[f] = get_keyword_defaults(f)]_vars

\* Two instances wrap the same function; an attribute write changed ftol
\* of the first, and the second still has the defaults.
C22_Witness ==
    /\ optfunc[1] = optfunc[2]
    /\ mop = "setattr" /\ minst = 1 /\ mname = "ftol"
    /\ config[1]["ftol"] = 2
    /\ config[2] = get_keyword_defaults(optfunc[2])
    /\ defaults[optfunc[1]]["ftol"] = 1

\* C29 (as claimed): for any pickled state __setstate__ completes, and then
\* the config keys are the optimizer's current keywords, a key that was
\* pickled keeping its pickled value and a new keyword getting its default.
C29_SetstateUpgradesConfig ==
    mop = "setstate" =>
        LET new_config == get_keyword_defaults(optfunc[minst]) IN
        /\ mres.kind = "none"
        /\ DOMAIN config[minst] = DOMAIN new_config
        /\ \A key \in DOMAIN new_config :
               config[minst][key] =
                   IF key \in DOMAIN margs.config THEN margs.config[key]
                   ELSE new_config[key]

====
